---- MODULE Spec2Model ----
(***************************************************************************)
(* State-machine model of the GERA backend (src/server.js, the PostgreSQL  *)
(* server in lines 1-442): the usuarios table, the two in-memory code      *)
(* registries, and the HTTP handlers that read and write them.             *)
(*                                                                         *)
(* A handler runs without preemption up to each await.  A handler with a   *)
(* single storage call is one action, taken at the instant the storage     *)
(* executes the statement; verify-code and reset-password check the        *)
(* registry before their await and delete the entry after it, so they are  *)
(* two actions (...Begin, ...End) with the request kept in `pending`       *)
(* in between.                                                             *)
(***************************************************************************)
EXTENDS Integers, Sequences, FiniteSets, Bags, TLC

\* ------------------------------------------------------------------ bounds
\* Clock step of the model, in milliseconds, and the last instant modelled.
TickMs == 600000
MaxNow == 1200000
\* Requests that may be suspended at their storage write at the same time.
MaxInFlight == 2
\* Codes that may be issued in one behaviour (send-verification-code and
\* send-password-reset together).
MaxIssues == 2
\* Rows that may be inserted into each of noticias and anuncios, and files that
\* multer may store, in one behaviour.
MaxRecords == 2
MaxFiles == 2

\* ------------------------------------------------------- program constants
\* 10 * 60 * 1000: lifetime of a code, in milliseconds.
CodeTTL == 600000
MinAge == 13
MaxAge == 120
CodeBase == 100000
CodeSpan == 900000

\* ------------------------------------------------------------------ values
\* parseInt's NaN; every number the model parses is non-negative.
NaN == -1

\* Strings the handlers transform are sequences of characters.
AdminEmail == <<"a","d","m","i","n","@","a","d","m","i","n",".","c","o","m">>
AdminPassword == "admin123"
EmailLower == <<"a","@","x",".","c","o","m">>
\* "A@X.com": the same address in another case.
EmailUpper == <<"A","@","X",".","c","o","m">>
\* " A@X.com": the same address in another case, with a blank before it.
EmailPadded == <<" ","A","@","X",".","c","o","m">>
EmptyString == <<>>

\* Inputs of the requests.
EmailInputs == {EmailLower, EmailUpper, AdminEmail}
RegisterEmails == EmailInputs \cup {EmailPadded}
\* Codes are asked for and presented with the user's address, in either case.
CodeEmails == {EmailLower, EmailUpper}
NameInputs == {EmptyString, <<"A"," ">>}
\* "12", "13", "121", "13x" and "x".
AgeInputs == {<<"1","2">>, <<"1","3">>, <<"1","2","1">>, <<"1","3","x">>, <<"x">>}
ValidName == <<"A"," ">>
ValidAge == <<"1","3">>
PasswordInputs == {"pw", "pw2"}
LoginPasswords == PasswordInputs \cup {AdminPassword}
\* Math.random() takes the values r / RandomDenominator, r in RandomSamples.
RandomDenominator == 2
RandomSamples == {0, 1}

VARIABLES
    usuarios,            \* rows of the usuarios table
    verificationCodes,   \* Map email -> {code, expiresAt}
    passwordResetCodes,  \* Map email -> {code, expiresAt}
    transporter,         \* the mail transport, or "null"
    now,                 \* Date.now()
    pending,             \* bag of requests suspended at their storage write
    last,                \* the request handled by the last step, and its answer
    issues,              \* history: number of codes issued so far
    wins,                \* history: successful answers per issued code
    verifiedByCode,      \* history: emails for which verify-code has answered 200
    noticias,            \* rows of the noticias table
    anuncios,            \* rows of the anuncios table
    uploads,             \* names of the files in the uploads directory
    deleting,            \* bag of delete-anuncio requests suspended at their DELETE
    serials              \* next value of each SERIAL id and of the file names

accountVars == <<usuarios, verificationCodes, passwordResetCodes, transporter, now,
                 pending, issues, wins, verifiedByCode>>

mediaVars == <<noticias, anuncios, uploads, deleting, serials>>

vars == <<accountVars, mediaVars, last>>

\* --------------------------------------------------------- string helpers
LowerChar(c) ==
    CASE c = "A" -> "a"
      [] c = "X" -> "x"
      [] OTHER -> c

\* String.prototype.toLowerCase
toLowerCase(s) == [i \in DOMAIN s |-> LowerChar(s[i])]

RECURSIVE TrimLeft(_)
TrimLeft(s) == IF s # <<>> /\ Head(s) = " " THEN TrimLeft(Tail(s)) ELSE s

RECURSIVE TrimRight(_)
TrimRight(s) ==
    IF s # <<>> /\ s[Len(s)] = " " THEN TrimRight(SubSeq(s, 1, Len(s) - 1)) ELSE s

\* String.prototype.trim
trim(s) == TrimRight(TrimLeft(s))

Digits == <<"0","1","2","3","4","5","6","7","8","9">>

IsDigit(c) == \E d \in DOMAIN Digits : Digits[d] = c

DigitValue(c) == (CHOOSE d \in DOMAIN Digits : Digits[d] = c) - 1

RECURSIVE ParseDigits(_, _)
\* The value of the longest prefix of digits of s, after the digits read so far.
ParseDigits(s, acc) ==
    IF s # <<>> /\ IsDigit(Head(s)) THEN ParseDigits(Tail(s), 10 * acc + DigitValue(Head(s)))
    ELSE acc

\* parseInt(s, 10) of an unsigned string: leading blanks skipped, NaN without a digit.
parseInt(s) ==
    LET t == TrimLeft(s)
    IN  IF t # <<>> /\ IsDigit(Head(t)) THEN ParseDigits(t, 0) ELSE NaN

isNaN(x) == x = NaN

Digit(d) == Digits[d + 1]

RECURSIVE toString(_)
\* Number.prototype.toString of a non-negative integer.
toString(n) == IF n < 10 THEN <<Digit(n)>> ELSE toString(n \div 10) \o <<Digit(n % 10)>>

\* generateCode with Math.random() = r / RandomDenominator.
generateCode(r) == toString(CodeBase + ((r * CodeSpan) \div RandomDenominator))

CodeInputs == {generateCode(r) : r \in RandomSamples}

\* ------------------------------------------------------------- Map helpers
MapHas(m, k) == k \in DOMAIN m
\* A set that keeps the entry the key already has.
MapSetIfAbsent(m, k, v) == [x \in (DOMAIN m) \cup {k} |-> IF x \in DOMAIN m THEN m[x] ELSE v]

MapSet(m, k, v) == [x \in (DOMAIN m) \cup {k} |-> IF x = k THEN v ELSE m[x]]
MapDelete(m, k) == [x \in (DOMAIN m) \ {k} |-> m[x]]
EmptyMap == <<>>

\* ---------------------------------------------------------- usuarios table
\* An insert that makes every new row an administrator.
NewUserAdmin(nome, email, idade, senha) ==
    [nome |-> nome, email |-> email, senha |-> senha, idade |-> idade,
     is_admin |-> TRUE, verificado |-> FALSE]

\* INSERT INTO usuarios: the columns the statement leaves out take their
\* DEFAULT (is_admin false, verificado false).
NewUser(nome, email, idade, senha) ==
    [nome |-> nome, email |-> email, senha |-> senha, idade |-> idade,
     is_admin |-> FALSE, verificado |-> FALSE]

AdminRow ==
    [nome |-> <<"A","d","m","i","n","i","s","t","r","a","d","o","r">>, email |-> AdminEmail, senha |-> AdminPassword, idade |-> 30,
     is_admin |-> TRUE, verificado |-> TRUE]

\* A column without its UNIQUE constraint.
UniqueViolationNever(rows, email) == FALSE

\* email TEXT UNIQUE: the insert is refused (SQLSTATE 23505) when a row holds the email.
UniqueViolation(rows, email) == \E u \in rows : u.email = email

\* A SELECT without its WHERE clause.
SelectByEmailAny(rows, email) == rows

\* SELECT ... WHERE email = $1 (TEXT equality, case-sensitive).
SelectByEmail(rows, email) == {u \in rows : u.email = email}

\* The login query without its verificado test.
SelectLoginAnyone(rows, email, password) ==
    {u \in rows : u.email = email /\ u.senha = password}

\* SELECT ... WHERE email = $1 AND senha = $2 AND verificado = true
SelectLogin(rows, email, password) ==
    {u \in rows : u.email = email /\ u.senha = password /\ u.verificado = TRUE}

\* UPDATE usuarios SET verificado = true WHERE email = $1
UpdateVerificado(rows, email) ==
    {IF u.email = email THEN [u EXCEPT !.verificado = TRUE] ELSE u : u \in rows}

\* An UPDATE that also sets the verificado flag.
UpdateSenhaVerifies(rows, newPassword, email) ==
    {IF u.email = email THEN [u EXCEPT !.senha = newPassword, !.verificado = TRUE] ELSE u :
        u \in rows}

\* UPDATE usuarios SET senha = $1 WHERE email = $2
UpdateSenha(rows, newPassword, email) ==
    {IF u.email = email THEN [u EXCEPT !.senha = newPassword] ELSE u : u \in rows}

\* ------------------------------------------------------------------ answers
\* What the last step handled: the request (op and the fields of its body), the
\* status of the answer (0: no answer was sent), whether the handler is suspended
\* at its storage write, whether the storage call succeeded, the number of the
\* issue of the code the step stored or accepted, the Authorization header, the
\* id of the row the request or the answer names, the file multer stored (0: none),
\* the text fields of the body, the senha of the body, the file part sent, and
\* the JSON body of the answer of a route that issued a code or of a login that
\* succeeded (its key-value pairs).
NoRequest ==
    [op |-> "none", name |-> EmptyString, email |-> EmptyString, code |-> EmptyString,
     password |-> "", age |-> EmptyString, status |-> 0, suspended |-> FALSE,
     storage |-> TRUE, issue |-> 0, auth |-> "", id |-> 0, file |-> 0,
     body |-> <<>>, senha |-> "", upload |-> "none", reply |-> {}]

Answer(op, email, status) == [NoRequest EXCEPT !.op = op, !.email = email, !.status = status]

\* No entry was replaced.
NoEntry == [code |-> EmptyString, expiresAt |-> 0]

\* The value of a registry entry, without its history.
Stored(entry) == [code |-> entry.code, expiresAt |-> entry.expiresAt]

\* A registry entry {code, expiresAt}.  History: the number of the issue that
\* stored it, and the entry it replaced.
Entry(code, expiresAt, issue, replaced) ==
    [code |-> code, expiresAt |-> expiresAt, issue |-> issue, replaced |-> replaced]

\* The entry that set(email, ...) replaces.
Replaced(registry, email) ==
    IF MapHas(registry, email) THEN Stored(registry[email]) ELSE NoEntry

\* res.json({ success: true })
SuccessReply == {<<"success", <<"t","r","u","e">>>>}

\* res.status(500).json({ error: 'Falha ao enviar e-mail.' })
MailErrorReply == {<<"error", <<"F","a","l","h","a"," ","a","o"," ","e","n","v","i","a","r"," ","e","-","m","a","i","l",".">>>>}

\* An answer that also holds the code.
SendReplyWithCode(code, delivered) ==
    IF delivered THEN SuccessReply \cup {<<"code", code>>} ELSE MailErrorReply

\* The body the routes that issue a code answer with, after sendMail resolved
\* or rejected, or without a transport (delivered).
SendReply(code, delivered) == IF delivered THEN SuccessReply ELSE MailErrorReply

\* sendMail is called only with a transport.
MailOutcomes == IF transporter = "null" THEN {TRUE} ELSE BOOLEAN

\* The server started without EMAIL_USER and EMAIL_PASS: transporter stays null.
Init ==
    /\ usuarios = {AdminRow}
    /\ verificationCodes = EmptyMap
    /\ passwordResetCodes = EmptyMap
    /\ transporter = "null"
    /\ now = 0
    /\ pending = EmptyBag
    /\ last = NoRequest
    /\ issues = 0
    /\ wins = [i \in 1..MaxIssues |-> 0]
    /\ verifiedByCode = {}
    /\ noticias = {}
    /\ anuncios = {}
    /\ uploads = {}
    /\ deleting = EmptyBag
    /\ serials = [noticias |-> 1, anuncios |-> 1, files |-> 1]

\* ----------------------------------------------------------------- handlers
\* POST /api/register
Register(name, email, age, password, dbOk) ==
    LET idade == parseInt(age)
        missing == name = EmptyString \/ email = EmptyString \/ age = EmptyString
                   \/ password = ""
        invalid == isNaN(idade) \/ idade < MinAge \/ idade > MaxAge
        stored == toLowerCase(trim(email))
        req == [Answer("register", email, 0) EXCEPT !.name = name, !.age = age,
                                                    !.password = password]
    IN  /\ last = NoRequest
        /\ IF missing \/ invalid
             THEN /\ last' = [req EXCEPT !.status = 400]
                  /\ UNCHANGED usuarios
             ELSE IF ~dbOk
             THEN /\ last' = [req EXCEPT !.status = 500, !.storage = FALSE]
                  /\ UNCHANGED usuarios
             ELSE IF UniqueViolation(usuarios, stored)
             THEN /\ last' = [req EXCEPT !.status = 400]
                  /\ UNCHANGED usuarios
             ELSE /\ usuarios' = usuarios \cup {NewUser(trim(name), stored, idade, password)}
                  /\ last' = [req EXCEPT !.status = 200]
        /\ UNCHANGED mediaVars
        /\ UNCHANGED <<verificationCodes, passwordResetCodes, transporter, now, pending,
                       issues, wins, verifiedByCode>>

\* The token of every successful login: the literal 'fake-token'.
FakeToken == <<"f","a","k","e","-","t","o","k","e","n">>

\* A boolean as JSON.stringify writes it.
JsonBool(b) == IF b THEN <<"t","r","u","e">> ELSE <<"f","a","l","s","e">>

\* A login that answers every account as an administrator.
isAdminAlways(row) == TRUE

\* isAdmin: r.rows[0].is_admin
isAdmin(row) == row.is_admin

\* res.json({ success: true, token: 'fake-token', isAdmin: r.rows[0].is_admin })
LoginReply(row) ==
    SuccessReply \cup {<<"token", FakeToken>>, <<"isAdmin", JsonBool(isAdmin(row))>>}

\* POST /api/login
Login(email, password, dbOk) ==
    LET req == [Answer("login", email, 0) EXCEPT !.password = password]
        rows == SelectLogin(usuarios, email, password)
    IN  /\ last = NoRequest
        /\ last' = IF ~dbOk THEN [req EXCEPT !.status = 500, !.storage = FALSE]
                   ELSE IF rows # {}
                        THEN [req EXCEPT !.status = 200,
                                         !.reply = LoginReply(CHOOSE u \in rows : TRUE)]
                        ELSE [req EXCEPT !.status = 401]
        /\ UNCHANGED mediaVars
        /\ UNCHANGED <<usuarios, verificationCodes, passwordResetCodes, transporter, now,
                       pending, issues, wins, verifiedByCode>>

\* POST /api/send-verification-code, with Math.random() = r / RandomDenominator.
\* The SELECT runs outside any try: when it rejects, no answer is sent.
SendVerificationCode(email, r, dbOk, mailOk) ==
    LET req == Answer("send-verification-code", email, 0)
        code == generateCode(r)
    IN  /\ last = NoRequest
        /\ issues < MaxIssues
        /\ IF ~dbOk
             THEN /\ last' = [req EXCEPT !.storage = FALSE]
                  /\ UNCHANGED <<verificationCodes, issues>>
             ELSE IF SelectByEmail(usuarios, email) = {}
             THEN /\ last' = [req EXCEPT !.status = 404]
                  /\ UNCHANGED <<verificationCodes, issues>>
             ELSE /\ verificationCodes' =
                        MapSet(verificationCodes, email,
                               Entry(code, now + CodeTTL, issues + 1,
                                     Replaced(verificationCodes, email)))
                  /\ issues' = issues + 1
                  /\ last' = [req EXCEPT !.code = code, !.issue = issues + 1,
                                         !.status = IF transporter # "null" /\ ~mailOk
                                                    THEN 500 ELSE 200,
                                         !.reply = SendReply(code,
                                                     ~(transporter # "null" /\ ~mailOk))]
        /\ UNCHANGED mediaVars
        /\ UNCHANGED <<usuarios, passwordResetCodes, transporter, now, pending, wins,
                       verifiedByCode>>

\* The check without its test of the expiry.
CodeRejectedNoExpiry(registry, email, code, time) ==
    \/ ~MapHas(registry, email)
    \/ registry[email].code # code

\* The check without its comparison of the codes.
CodeRejectedAnyCode(registry, email, code, time) ==
    \/ ~MapHas(registry, email)
    \/ time > registry[email].expiresAt

\* !stored || stored.code !== code || Date.now() > stored.expiresAt
CodeRejected(registry, email, code, time) ==
    \/ ~MapHas(registry, email)
    \/ registry[email].code # code
    \/ time > registry[email].expiresAt

\* The Map verify-code reads.
SignupRegistry == verificationCodes

\* One Map for both purposes.
ResetRegistryShared == verificationCodes

\* The Map reset-password reads.
ResetRegistry == passwordResetCodes

\* POST /api/verify-code, up to its await: the check of the registry.
VerifyCodeBegin(email, code) ==
    LET req == [Answer("verify-code", email, 0) EXCEPT !.code = code]
    IN  /\ last = NoRequest
        /\ IF CodeRejected(SignupRegistry, email, code, now)
             THEN /\ last' = [req EXCEPT !.status = 400]
                  /\ UNCHANGED pending
             ELSE /\ BagCardinality(pending) < MaxInFlight
                  /\ pending' = pending (+)
                        SetToBag({[op |-> "verify-code", email |-> email, password |-> "",
                                   issue |-> SignupRegistry[email].issue]})
                  /\ last' = [req EXCEPT !.suspended = TRUE,
                                         !.issue = SignupRegistry[email].issue]
        /\ UNCHANGED mediaVars
        /\ UNCHANGED <<usuarios, verificationCodes, passwordResetCodes, transporter, now,
                       issues, wins, verifiedByCode>>

\* POST /api/verify-code, from its await on: the UPDATE, then the delete and the answer.
VerifyCodeEnd(p, dbOk) ==
    LET req == [Answer("verify-code-end", p.email, 0) EXCEPT !.issue = p.issue]
    IN  /\ last = NoRequest
        /\ p.op = "verify-code"
        /\ BagIn(p, pending)
        /\ pending' = pending (-) SetToBag({p})
        /\ IF dbOk
             THEN /\ usuarios' = UpdateVerificado(usuarios, p.email)
                  /\ verificationCodes' = MapDelete(verificationCodes, p.email)
                  /\ wins' = [wins EXCEPT ![p.issue] = @ + 1]
                  /\ verifiedByCode' = verifiedByCode \cup {p.email}
                  /\ last' = [req EXCEPT !.status = 200]
             ELSE /\ last' = [req EXCEPT !.status = 500, !.storage = FALSE]
                  /\ UNCHANGED <<usuarios, verificationCodes, wins, verifiedByCode>>
        /\ UNCHANGED mediaVars
        /\ UNCHANGED <<passwordResetCodes, transporter, now, issues>>

\* POST /api/send-password-reset, with Math.random() = r / RandomDenominator.
\* The SELECT runs outside any try: when it rejects, no answer is sent.
SendPasswordReset(email, r, dbOk, mailOk) ==
    LET req == Answer("send-password-reset", email, 0)
        code == generateCode(r)
    IN  /\ last = NoRequest
        /\ issues < MaxIssues
        /\ IF ~dbOk
             THEN /\ last' = [req EXCEPT !.storage = FALSE]
                  /\ UNCHANGED <<passwordResetCodes, issues>>
             ELSE IF SelectByEmail(usuarios, email) = {}
             THEN /\ last' = [req EXCEPT !.status = 404]
                  /\ UNCHANGED <<passwordResetCodes, issues>>
             ELSE /\ passwordResetCodes' =
                        MapSet(passwordResetCodes, email,
                               Entry(code, now + CodeTTL, issues + 1,
                                     Replaced(passwordResetCodes, email)))
                  /\ issues' = issues + 1
                  /\ last' = [req EXCEPT !.code = code, !.issue = issues + 1,
                                         !.status = IF transporter # "null" /\ ~mailOk
                                                    THEN 500 ELSE 200,
                                         !.reply = SendReply(code,
                                                     ~(transporter # "null" /\ ~mailOk))]
        /\ UNCHANGED mediaVars
        /\ UNCHANGED <<usuarios, verificationCodes, transporter, now, pending, wins,
                       verifiedByCode>>

\* POST /api/reset-password, up to its await: the check of the registry.
ResetPasswordBegin(email, code, newPassword) ==
    LET req == [Answer("reset-password", email, 0) EXCEPT !.code = code,
                                                          !.password = newPassword]
    IN  /\ last = NoRequest
        /\ IF CodeRejected(ResetRegistry, email, code, now)
             THEN /\ last' = [req EXCEPT !.status = 400]
                  /\ UNCHANGED pending
             ELSE /\ BagCardinality(pending) < MaxInFlight
                  /\ pending' = pending (+)
                        SetToBag({[op |-> "reset-password", email |-> email,
                                   password |-> newPassword,
                                   issue |-> ResetRegistry[email].issue]})
                  /\ last' = [req EXCEPT !.suspended = TRUE,
                                         !.issue = ResetRegistry[email].issue]
        /\ UNCHANGED mediaVars
        /\ UNCHANGED <<usuarios, verificationCodes, passwordResetCodes, transporter, now,
                       issues, wins, verifiedByCode>>

\* POST /api/reset-password, from its await on: the UPDATE, then the delete and the answer.
ResetPasswordEnd(p, dbOk) ==
    LET req == [Answer("reset-password-end", p.email, 0) EXCEPT !.issue = p.issue,
                                                                !.password = p.password]
    IN  /\ last = NoRequest
        /\ p.op = "reset-password"
        /\ BagIn(p, pending)
        /\ pending' = pending (-) SetToBag({p})
        /\ IF dbOk
             THEN /\ usuarios' = UpdateSenha(usuarios, p.password, p.email)
                  /\ passwordResetCodes' = MapDelete(passwordResetCodes, p.email)
                  /\ wins' = [wins EXCEPT ![p.issue] = @ + 1]
                  /\ last' = [req EXCEPT !.status = 200]
             ELSE /\ last' = [req EXCEPT !.status = 500, !.storage = FALSE]
                  /\ UNCHANGED <<usuarios, passwordResetCodes, wins>>
        /\ UNCHANGED mediaVars
        /\ UNCHANGED <<verificationCodes, transporter, now, issues, verifiedByCode>>

\* ------------------------------------------------------------ media values
\* A field the body does not hold (undefined).
Absent == "undefined"

\* !field
Falsy(v) == v = Absent \/ v = ""

\* The text fields of a body, in the order the handler destructures them; the
\* bodies sent hold every field, or hold the first one empty, or lack it.
NewsFields == <<"titulo", "categoria", "resumo", "corpo">>
AdFields == <<"nome", "empresa", "email", "telefone", "tipo", "mensagem">>
Bodies(fields) ==
    {[i \in DOMAIN fields |-> IF i = 1 THEN v ELSE "x"] : v \in {"x", "", Absent}}

\* !a || !b || ...
AnyFalsy(body) == \E i \in DOMAIN body : Falsy(body[i])

\* A NOT NULL column receives NULL.
NotNullViolation(body) == \E i \in DOMAIN body : body[i] = Absent

\* The Authorization headers sent: none, one that is no bearer token, and the
\* token login hands to every user.
AuthInputs == {"", "Basic x", "Bearer fake-token"}
SenhaInputs == {AdminPassword, "wrong"}
\* The file part of a multipart body: none, an image, a file that is no image,
\* an image above the size limit.
FileInputs == {"none", "image", "text", "big"}
\* imagem IS NULL
Null == 0

\* const authAdmin = (req, res, next) => next(): TRUE when next() is called.
authAdmin(auth) == TRUE

\* fileFilter and limits of upload: "stored", "skipped" (no req.file) or "error".
Multer(upload) ==
    CASE upload = "image" -> "stored"
      [] upload = "big" -> "error"
      [] OTHER -> "skipped"

\* req.file ? `/uploads/${req.file.filename}` : null, the name being fresh.
Imagem(upload) == IF Multer(upload) = "stored" THEN serials.files ELSE Null

\* The uploads directory and the name counter after upload.single('imagem').
AfterMulter(upload) ==
    /\ Multer(upload) = "stored" => serials.files <= MaxFiles
    /\ uploads' = IF Multer(upload) = "stored" THEN uploads \cup {serials.files} ELSE uploads

NewsRow(id, imagem) == [id |-> id, imagem |-> imagem]

\* An insert that stores every lead as active.
AnuncioRowAtivo(id, body, imagem) ==
    [id |-> id, nome |-> body[1], imagem |-> imagem, status |-> "ativo"]

\* status takes its DEFAULT 'pendente'.
AnuncioRow(id, body, imagem) ==
    [id |-> id, nome |-> body[1], imagem |-> imagem, status |-> "pendente"]

Bump(counter, taken) == [serials EXCEPT ![counter] = @ + 1,
                                        !.files = IF taken THEN @ + 1 ELSE @]

\* An unlink that removes nothing.
unlinkSyncNothing(files, file) == files

\* fs.unlinkSync(p): the directory without the file.
unlinkSync(files, file) == files \ {file}

\* DELETE FROM anuncios WHERE id = $1
DeleteAnuncio(rows, id) == {a \in rows : a.id # id}

\* --------------------------------------------------------- media handlers
\* POST /api/add-ad
AddAd(body, upload, dbOk) ==
    LET req == [Answer("add-ad", EmptyString, 0) EXCEPT !.body = body, !.upload = upload,
                                                        !.file = Imagem(upload)]
        taken == Multer(upload) = "stored"
    IN  /\ last = NoRequest
        /\ AfterMulter(upload)
        /\ IF Multer(upload) = "error"
             THEN /\ last' = [req EXCEPT !.status = 500]
                  /\ UNCHANGED <<anuncios, serials>>
             ELSE IF ~dbOk \/ NotNullViolation(body)
             THEN /\ last' = [req EXCEPT !.status = 500, !.storage = dbOk]
                  /\ serials' = [serials EXCEPT !.files = IF taken THEN @ + 1 ELSE @]
                  /\ UNCHANGED anuncios
             ELSE /\ serials.anuncios <= MaxRecords
                  /\ anuncios' = anuncios \cup
                        {AnuncioRow(serials.anuncios, body, Imagem(upload))}
                  /\ serials' = Bump("anuncios", taken)
                  /\ last' = [req EXCEPT !.status = 200, !.id = serials.anuncios]
        /\ UNCHANGED accountVars
        /\ UNCHANGED <<noticias, deleting>>

\* POST /api/add-news
AddNews(auth, body, upload, dbOk) ==
    LET req == [Answer("add-news", EmptyString, 0) EXCEPT !.auth = auth, !.body = body,
                                                          !.upload = upload]
        taken == Multer(upload) = "stored"
    IN  /\ last = NoRequest
        /\ IF ~authAdmin(auth)
             THEN /\ last' = [req EXCEPT !.status = 401]
                  /\ UNCHANGED <<noticias, uploads, serials>>
             ELSE /\ AfterMulter(upload)
                  /\ IF Multer(upload) = "error"
                       THEN /\ last' = [req EXCEPT !.status = 500]
                            /\ UNCHANGED <<noticias, serials>>
                       ELSE IF AnyFalsy(body)
                       THEN /\ last' = [req EXCEPT !.status = 400, !.file = Imagem(upload)]
                            /\ serials' = [serials EXCEPT !.files = IF taken THEN @ + 1 ELSE @]
                            /\ UNCHANGED noticias
                       ELSE IF ~dbOk
                       THEN /\ last' = [req EXCEPT !.status = 500, !.storage = FALSE,
                                                   !.file = Imagem(upload)]
                            /\ serials' = [serials EXCEPT !.files = IF taken THEN @ + 1 ELSE @]
                            /\ UNCHANGED noticias
                       ELSE /\ serials.noticias <= MaxRecords
                            /\ noticias' = noticias \cup
                                  {NewsRow(serials.noticias, Imagem(upload))}
                            /\ serials' = Bump("noticias", taken)
                            /\ last' = [req EXCEPT !.status = 200, !.id = serials.noticias,
                                                   !.file = Imagem(upload)]
        /\ UNCHANGED accountVars
        /\ UNCHANGED <<anuncios, deleting>>

\* POST /api/add-anuncio
AddAnuncio(auth, body, upload, dbOk) ==
    LET req == [Answer("add-anuncio", EmptyString, 0) EXCEPT !.auth = auth, !.body = body,
                                                             !.upload = upload]
        taken == Multer(upload) = "stored"
    IN  /\ last = NoRequest
        /\ IF ~authAdmin(auth)
             THEN /\ last' = [req EXCEPT !.status = 401]
                  /\ UNCHANGED <<anuncios, uploads, serials>>
             ELSE /\ AfterMulter(upload)
                  /\ IF Multer(upload) = "error"
                       THEN /\ last' = [req EXCEPT !.status = 500]
                            /\ UNCHANGED <<anuncios, serials>>
                       ELSE IF AnyFalsy(body)
                       THEN /\ last' = [req EXCEPT !.status = 400, !.file = Imagem(upload)]
                            /\ serials' = [serials EXCEPT !.files = IF taken THEN @ + 1 ELSE @]
                            /\ UNCHANGED anuncios
                       ELSE IF ~dbOk
                       THEN /\ last' = [req EXCEPT !.status = 500, !.storage = FALSE,
                                                   !.file = Imagem(upload)]
                            /\ serials' = [serials EXCEPT !.files = IF taken THEN @ + 1 ELSE @]
                            /\ UNCHANGED anuncios
                       ELSE /\ serials.anuncios <= MaxRecords
                            /\ anuncios' = anuncios \cup
                                  {AnuncioRow(serials.anuncios, body, Imagem(upload))}
                            /\ serials' = Bump("anuncios", taken)
                            /\ last' = [req EXCEPT !.status = 200, !.id = serials.anuncios,
                                                   !.file = Imagem(upload)]
        /\ UNCHANGED accountVars
        /\ UNCHANGED <<noticias, deleting>>

\* DELETE /api/delete-anuncio/:id, up to the answer of its SELECT.
DeleteAnuncioSelect(auth, id, senha, dbOk) ==
    LET req == [Answer("delete-anuncio", EmptyString, 0) EXCEPT !.auth = auth, !.id = id,
                                                                !.senha = senha]
        rows == {a \in anuncios : a.id = id}
    IN  /\ last = NoRequest
        /\ IF ~authAdmin(auth) \/ senha # AdminPassword
             THEN /\ last' = [req EXCEPT !.status = 401]
                  /\ UNCHANGED deleting
             ELSE IF ~dbOk
             THEN /\ last' = [req EXCEPT !.status = 500, !.storage = FALSE]
                  /\ UNCHANGED deleting
             ELSE IF rows = {}
             THEN /\ last' = [req EXCEPT !.status = 404]
                  /\ UNCHANGED deleting
             ELSE /\ BagCardinality(deleting) < MaxInFlight
                  /\ \E a \in rows :
                        deleting' = deleting (+)
                            SetToBag({[id |-> id, imagem |-> a.imagem, pc |-> "selected"]})
                  /\ last' = [req EXCEPT !.suspended = TRUE]
        /\ UNCHANGED accountVars
        /\ UNCHANGED <<noticias, anuncios, uploads, serials>>

\* DELETE /api/delete-anuncio/:id, from the answer of its SELECT to its DELETE:
\* fs.existsSync and fs.unlinkSync, which may throw.
DeleteAnuncioUnlink(d, unlinkOk) ==
    LET req == [Answer("delete-anuncio-unlink", EmptyString, 0) EXCEPT
                    !.id = d.id, !.file = d.imagem]
        there == d.imagem # Null /\ d.imagem \in uploads
    IN  /\ last = NoRequest
        /\ d.pc = "selected"
        /\ BagIn(d, deleting)
        /\ IF there /\ ~unlinkOk
             THEN /\ deleting' = deleting (-) SetToBag({d})
                  /\ last' = [req EXCEPT !.status = 500]
                  /\ UNCHANGED uploads
             ELSE /\ deleting' = (deleting (-) SetToBag({d})) (+)
                                    SetToBag({[d EXCEPT !.pc = "unlinked"]})
                  /\ uploads' = IF there THEN unlinkSync(uploads, d.imagem) ELSE uploads
                  /\ last' = [req EXCEPT !.suspended = TRUE]
        /\ UNCHANGED accountVars
        /\ UNCHANGED <<noticias, anuncios, serials>>

\* DELETE /api/delete-anuncio/:id, from its DELETE on.
DeleteAnuncioEnd(d, dbOk) ==
    LET req == [Answer("delete-anuncio-end", EmptyString, 0) EXCEPT
                    !.id = d.id, !.file = d.imagem]
    IN  /\ last = NoRequest
        /\ d.pc = "unlinked"
        /\ BagIn(d, deleting)
        /\ deleting' = deleting (-) SetToBag({d})
        /\ IF dbOk
             THEN /\ anuncios' = DeleteAnuncio(anuncios, d.id)
                  /\ last' = [req EXCEPT !.status = 200]
             ELSE /\ last' = [req EXCEPT !.status = 500, !.storage = FALSE]
                  /\ UNCHANGED anuncios
        /\ UNCHANGED accountVars
        /\ UNCHANGED <<noticias, uploads, serials>>

\* POST /api/upload
Upload(auth, upload) ==
    LET req == [Answer("upload", EmptyString, 0) EXCEPT !.auth = auth, !.upload = upload]
        taken == Multer(upload) = "stored"
    IN  /\ last = NoRequest
        /\ IF ~authAdmin(auth)
             THEN /\ last' = [req EXCEPT !.status = 401]
                  /\ UNCHANGED <<uploads, serials>>
             ELSE /\ AfterMulter(upload)
                  /\ serials' = [serials EXCEPT !.files = IF taken THEN @ + 1 ELSE @]
                  /\ last' = CASE Multer(upload) = "error" -> [req EXCEPT !.status = 500]
                               [] Multer(upload) = "skipped" -> [req EXCEPT !.status = 400]
                               [] OTHER -> [req EXCEPT !.status = 200,
                                                       !.file = Imagem(upload)]
        /\ UNCHANGED accountVars
        /\ UNCHANGED <<noticias, anuncios, deleting>>

\* SELECT COUNT(*) as total FROM ..., read with parseInt and written as a JSON number.
Total(rows) == toString(Cardinality(rows))

\* The body admin-dashboard answers with: the users, the articles, and the
\* leads WHERE status = 'ativo'.
DashboardReply ==
    {<<"totalUsuarios", Total(usuarios)>>,
     <<"totalNoticias", Total(noticias)>>,
     <<"totalAnuncios", Total({a \in anuncios : a.status = "ativo"})>>}

\* The GET routes behind authAdmin.
AdminReads == {"admin-dashboard", "realtime", "noticias-admin", "anuncios", "usuarios",
               "export-leads"}

\* GET /api/admin-dashboard, realtime, noticias-admin, anuncios, usuarios and
\* export-leads.  Only admin-dashboard awaits its queries inside a try; realtime
\* runs no query; the others send no answer when their query rejects.
AdminRead(op, auth, dbOk) ==
    LET req == [Answer(op, EmptyString, 0) EXCEPT !.auth = auth]
    IN  /\ last = NoRequest
        /\ last' = IF ~authAdmin(auth) THEN [req EXCEPT !.status = 401]
                   ELSE IF dbOk /\ op = "admin-dashboard"
                        THEN [req EXCEPT !.status = 200, !.reply = DashboardReply]
                   ELSE IF dbOk \/ op = "realtime" THEN [req EXCEPT !.status = 200]
                   ELSE IF op = "admin-dashboard"
                        THEN [req EXCEPT !.status = 500, !.storage = FALSE]
                   ELSE [req EXCEPT !.storage = FALSE]
        /\ UNCHANGED accountVars
        /\ UNCHANGED mediaVars

\* Time passes between two events.
Tick ==
    /\ last = NoRequest
    /\ now + TickMs <= MaxNow
    /\ now' = now + TickMs
    /\ UNCHANGED mediaVars
    /\ UNCHANGED <<usuarios, verificationCodes, passwordResetCodes, transporter, pending,
                   last, issues, wins, verifiedByCode>>

\* The handler has returned: the event loop is free to run the next callback.
Idle ==
    /\ last # NoRequest
    /\ last' = NoRequest
    /\ UNCHANGED mediaVars
    /\ UNCHANGED <<usuarios, verificationCodes, passwordResetCodes, transporter, now,
                   pending, issues, wins, verifiedByCode>>

\* The register requests sent: every address with valid fields, one request for
\* each invalid field, and one whose INSERT the storage fails.
RegisterRequests ==
    {[name |-> ValidName, email |-> e, age |-> ValidAge, password |-> p, dbOk |-> TRUE] :
        e \in RegisterEmails, p \in PasswordInputs}
    \cup {[name |-> n, email |-> EmailLower, age |-> a, password |-> "pw", dbOk |-> TRUE] :
            n \in NameInputs, a \in AgeInputs}
    \cup {[name |-> ValidName, email |-> EmailLower, age |-> ValidAge, password |-> "pw",
           dbOk |-> FALSE]}

\* The login requests sent: every address with every password, and one whose
\* SELECT the storage fails.
LoginRequests ==
    {[email |-> e, password |-> p, dbOk |-> TRUE] : e \in EmailInputs, p \in LoginPasswords}
    \cup {[email |-> EmailLower, password |-> "pw", dbOk |-> FALSE]}

Next ==
    \/ \E q \in RegisterRequests : Register(q.name, q.email, q.age, q.password, q.dbOk)
    \/ \E q \in LoginRequests : Login(q.email, q.password, q.dbOk)
    \/ \E email \in CodeEmails, r \in RandomSamples, dbOk \in BOOLEAN, mailOk \in MailOutcomes :
          SendVerificationCode(email, r, dbOk, mailOk)
    \/ \E email \in CodeEmails, code \in CodeInputs : VerifyCodeBegin(email, code)
    \/ \E p \in BagToSet(pending), dbOk \in BOOLEAN : VerifyCodeEnd(p, dbOk)
    \/ \E email \in CodeEmails, r \in RandomSamples, dbOk \in BOOLEAN, mailOk \in MailOutcomes :
          SendPasswordReset(email, r, dbOk, mailOk)
    \/ \E email \in CodeEmails, code \in CodeInputs, newPassword \in PasswordInputs :
          ResetPasswordBegin(email, code, newPassword)
    \/ \E p \in BagToSet(pending), dbOk \in BOOLEAN : ResetPasswordEnd(p, dbOk)
    \/ Tick
    \/ Idle

Spec == Init /\ [][Next]_vars

\* The server started with EMAIL_USER and EMAIL_PASS set and a transport built.
InitMail ==
    /\ usuarios = {AdminRow}
    /\ verificationCodes = EmptyMap
    /\ passwordResetCodes = EmptyMap
    /\ transporter = "smtp"
    /\ now = 0
    /\ pending = EmptyBag
    /\ last = NoRequest
    /\ issues = 0
    /\ wins = [i \in 1..MaxIssues |-> 0]
    /\ verifiedByCode = {}
    /\ noticias = {}
    /\ anuncios = {}
    /\ uploads = {}
    /\ deleting = EmptyBag
    /\ serials = [noticias |-> 1, anuncios |-> 1, files |-> 1]

SpecMail == InitMail /\ [][Next]_vars

\* The media-linked records and the routes behind authAdmin.
\* The body that holds every field.
FullBody(fields) == [i \in DOMAIN fields |-> "x"]

Token == "Bearer fake-token"

\* The create requests sent: every header with a full body, with and without an
\* image; every body and every file part with the token; and requests whose
\* INSERT the storage fails.
CreateRequests(fields) ==
    {[auth |-> a, body |-> FullBody(fields), upload |-> u, dbOk |-> TRUE] :
        a \in AuthInputs, u \in {"none", "image"}}
    \cup {[auth |-> Token, body |-> b, upload |-> u, dbOk |-> TRUE] :
            b \in Bodies(fields), u \in FileInputs}
    \cup {[auth |-> Token, body |-> FullBody(fields), upload |-> u, dbOk |-> FALSE] :
            u \in {"none", "image"}}

\* The GET requests sent: every route with every header, and with the token a
\* request whose query the storage fails.
ReadRequests ==
    {[op |-> o, auth |-> a, dbOk |-> TRUE] : o \in AdminReads, a \in AuthInputs}
    \cup {[op |-> o, auth |-> Token, dbOk |-> FALSE] : o \in AdminReads}

\* POST /api/add-ad reads no header.
AdRequests == {q \in CreateRequests(AdFields) : q.auth = Token}

NextMedia ==
    \/ \E q \in AdRequests : AddAd(q.body, q.upload, q.dbOk)
    \/ \E q \in CreateRequests(NewsFields) : AddNews(q.auth, q.body, q.upload, q.dbOk)
    \/ \E q \in CreateRequests(AdFields) : AddAnuncio(q.auth, q.body, q.upload, q.dbOk)
    \/ \E auth \in AuthInputs, id \in 1..MaxRecords, senha \in SenhaInputs,
          dbOk \in BOOLEAN : DeleteAnuncioSelect(auth, id, senha, dbOk)
    \/ \E d \in BagToSet(deleting), unlinkOk \in BOOLEAN : DeleteAnuncioUnlink(d, unlinkOk)
    \/ \E d \in BagToSet(deleting), dbOk \in BOOLEAN : DeleteAnuncioEnd(d, dbOk)
    \/ \E auth \in AuthInputs, upload \in FileInputs : Upload(auth, upload)
    \/ \E q \in ReadRequests : AdminRead(q.op, q.auth, q.dbOk)
    \/ Idle

SpecMedia == Init /\ [][NextMedia]_vars

\* The lead records alone: their creation by an administrator, the generic
\* upload, and delete-anuncio.
NextLeads ==
    \/ \E q \in CreateRequests(AdFields) : AddAnuncio(q.auth, q.body, q.upload, q.dbOk)
    \/ \E auth \in AuthInputs, id \in 1..MaxRecords, senha \in SenhaInputs,
          dbOk \in BOOLEAN : DeleteAnuncioSelect(auth, id, senha, dbOk)
    \/ \E d \in BagToSet(deleting), unlinkOk \in BOOLEAN : DeleteAnuncioUnlink(d, unlinkOk)
    \/ \E d \in BagToSet(deleting), dbOk \in BOOLEAN : DeleteAnuncioEnd(d, dbOk)
    \/ \E auth \in AuthInputs, upload \in FileInputs : Upload(auth, upload)
    \/ Idle

SpecLeads == Init /\ [][NextLeads]_vars

\* The GET requests of admin-dashboard.
DashboardRequests == {q \in ReadRequests : q.op = "admin-dashboard"}

\* The lead records and the route that counts them: both creations, the delete
\* and admin-dashboard.
NextDashboard ==
    \/ \E q \in AdRequests : AddAd(q.body, q.upload, q.dbOk)
    \/ \E q \in CreateRequests(AdFields) : AddAnuncio(q.auth, q.body, q.upload, q.dbOk)
    \/ \E auth \in AuthInputs, id \in 1..MaxRecords, senha \in SenhaInputs,
          dbOk \in BOOLEAN : DeleteAnuncioSelect(auth, id, senha, dbOk)
    \/ \E d \in BagToSet(deleting), unlinkOk \in BOOLEAN : DeleteAnuncioUnlink(d, unlinkOk)
    \/ \E d \in BagToSet(deleting), dbOk \in BOOLEAN : DeleteAnuncioEnd(d, dbOk)
    \/ \E q \in DashboardRequests : AdminRead(q.op, q.auth, q.dbOk)
    \/ Idle

SpecDashboard == Init /\ [][NextDashboard]_vars

\* The process starts again on the same database: the registries of codes are
\* new Maps and the handlers that were suspended are gone.  initDB creates no
\* table that exists, looks the administrator up and inserts the row when the
\* lookup finds none (id 1 of the answer: the row was inserted).  A query that
\* rejects is logged and the server keeps running.
initDB(dbOk) ==
    LET boot == Answer("initDB", AdminEmail, 0)
        missing == SelectByEmail(usuarios, AdminEmail) = {}
    IN  /\ last = NoRequest
        /\ IF ~dbOk
             THEN /\ last' = [boot EXCEPT !.storage = FALSE]
                  /\ UNCHANGED usuarios
             ELSE IF missing
             THEN /\ usuarios' = usuarios \cup {AdminRow}
                  /\ last' = [boot EXCEPT !.id = 1]
             ELSE /\ last' = boot
                  /\ UNCHANGED usuarios
        /\ verificationCodes' = EmptyMap
        /\ passwordResetCodes' = EmptyMap
        /\ pending' = EmptyBag
        /\ deleting' = EmptyBag
        /\ UNCHANGED <<transporter, now, issues, wins, verifiedByCode, noticias, anuncios,
                       uploads, serials>>

\* The account routes of a server that is started again at any time.
NextBoot ==
    \/ Next
    \/ \E dbOk \in BOOLEAN : initDB(dbOk)

SpecBoot == Init /\ [][NextBoot]_vars
\* ------------------------------------------------------------------ claims
\* The rows of the address a request names, as the lookups compare it.
RowsOf(email) == {u \in usuarios : u.email = email}

\* C1: login answers 200 only for a row whose verificado flag is true; with the
\* right password it answers 401 while the flag is false and 200 once it is true;
\* the flag of a row is true only after verify-code has answered 200 for its
\* address, except for the bootstrap admin row, and it stays true afterwards.
C1_LoginOnlyWhenVerified ==
    /\ \A u \in usuarios :
          /\ u.verificado => (u.email \in verifiedByCode \/ u = AdminRow)
          /\ u.email \in verifiedByCode => u.verificado
    /\ (last.op = "login" /\ last.storage) =>
          /\ last.status \in {200, 401}
          /\ last.status = 200 =>
                \E u \in RowsOf(last.email) :
                    u.verificado /\ (u.email \in verifiedByCode \/ u = AdminRow)
          /\ \A u \in RowsOf(last.email) :
                u.senha = last.password =>
                    last.status = IF u.verificado THEN 200 ELSE 401

\* A registered user logs in after verify-code has answered 200 for the address.
C1_Witness ==
    /\ last.op = "login"
    /\ last.status = 200
    /\ last.email = EmailLower
    /\ EmailLower \in verifiedByCode

\* C2: one issued code gives at most one successful verify-code or
\* reset-password, whatever the interleaving of the requests.
C2_ConsumedAtMostOnce == \A i \in 1..MaxIssues : wins[i] <= 1

\* The routes registered with authAdmin.
AdminOps == AdminReads \cup {"add-news", "add-anuncio", "delete-anuncio", "upload"}

\* Authorization headers that hold no bearer token.
NoBearer == {"", "Basic x"}

\* C3: a request to an admin-only route whose Authorization header is missing or
\* malformed is rejected with 401 (nothing is stored, no handler is left
\* suspended at the storage, no row or file is named in the answer).
C3_AdminGate ==
    (last.op \in AdminOps /\ last.auth \in NoBearer) =>
        (last.status = 401 /\ ~last.suspended /\ last.id = 0 /\ last.file = Null)

\* What a step that presents an expired code, or issues a code, does.
C4_ExpiredStep ==
    /\ (/\ last'.op = "verify-code"
        /\ MapHas(verificationCodes, last'.email)
        /\ now > verificationCodes[last'.email].expiresAt)
          => (last'.status = 400 /\ ~last'.suspended /\ UNCHANGED <<usuarios, pending>>)
    /\ (/\ last'.op = "reset-password"
        /\ MapHas(passwordResetCodes, last'.email)
        /\ now > passwordResetCodes[last'.email].expiresAt)
          => (last'.status = 400 /\ ~last'.suspended /\ UNCHANGED <<usuarios, pending>>)
    /\ (last'.op = "send-verification-code" /\ last'.issue # 0)
          => verificationCodes'[last'.email].expiresAt = now + CodeTTL
    /\ (last'.op = "send-password-reset" /\ last'.issue # 0)
          => passwordResetCodes'[last'.email].expiresAt = now + CodeTTL

\* C4: a verify-code or reset-password that presents a code after the expiresAt
\* of the entry (issue time + CodeTTL) is answered 400, is not suspended at the
\* storage write and leaves the usuarios table as it is.
C4_ExpiredCodeFails == [][C4_ExpiredStep]_vars

\* The stored code itself is presented after its expiry and answered 400.
C4_Witness ==
    /\ last.op = "verify-code"
    /\ last.status = 400
    /\ MapHas(verificationCodes, last.email)
    /\ verificationCodes[last.email].code = last.code
    /\ now > verificationCodes[last.email].expiresAt

\* C5: right after register answers 200, the new row is unverified and the
\* signup registry holds a code for its address that expires in the future.
C5_RegisterIssuesCode ==
    (last.op = "register" /\ last.status = 200) =>
        LET email == toLowerCase(trim(last.email))
        IN  /\ \E u \in RowsOf(email) : ~u.verificado
            /\ MapHas(verificationCodes, email)
            /\ verificationCodes[email].expiresAt > now

\* What a step that presents a wrong code, or logs in unverified, does.
C6_WrongCodeStep ==
    /\ (/\ last'.op = "verify-code"
        /\ MapHas(verificationCodes, last'.email)
        /\ verificationCodes[last'.email].code # last'.code)
          => /\ last'.status = 400
             /\ ~last'.suspended
             /\ UNCHANGED <<usuarios, verificationCodes, passwordResetCodes, pending>>
    /\ (last'.op = "login" /\ last'.storage)
          => \A u \in RowsOf(last'.email) :
                (u.senha = last'.password /\ ~u.verificado) => last'.status = 401

\* C6: a verify-code whose code differs from the stored one is answered 400 and
\* changes nothing (the table, the registries, the suspended requests), and a
\* login with the password of a row that is not verified is answered 401.
C6_WrongCodeChangesNothing == [][C6_WrongCodeStep]_vars

\* A wrong code is presented for an unverified user while the stored code is live.
C6_Witness ==
    /\ last.op = "verify-code"
    /\ last.status = 400
    /\ MapHas(verificationCodes, last.email)
    /\ verificationCodes[last.email].code # last.code
    /\ now <= verificationCodes[last.email].expiresAt
    /\ \E u \in RowsOf(last.email) : ~u.verificado

\* What a step of one purpose does to the registries.
C7_PurposeStep ==
    /\ last'.op \in {"send-verification-code", "verify-code", "verify-code-end"}
          => UNCHANGED passwordResetCodes
    /\ last'.op \in {"send-password-reset", "reset-password", "reset-password-end"}
          => UNCHANGED verificationCodes
    /\ (last'.op = "verify-code" /\ last'.suspended)
          => /\ MapHas(verificationCodes, last'.email)
             /\ verificationCodes[last'.email].code = last'.code
    /\ (last'.op = "reset-password" /\ last'.suspended)
          => /\ MapHas(passwordResetCodes, last'.email)
             /\ passwordResetCodes[last'.email].code = last'.code

\* C7: verify-code is decided by the signup registry alone and reset-password by
\* the reset registry alone, and a step of one purpose leaves the registry of
\* the other purpose as it is.
C7_RegistriesIndependent == [][C7_PurposeStep]_vars

\* verify-code is answered 400 for a code that is the live password-reset code
\* of the same address.
C7_Witness ==
    /\ last.op = "verify-code"
    /\ last.status = 400
    /\ MapHas(passwordResetCodes, last.email)
    /\ passwordResetCodes[last.email].code = last.code
    /\ now <= passwordResetCodes[last.email].expiresAt

\* What a step that issues a code, or presents one that is not the stored one, does.
C8_ReissueStep ==
    /\ (last'.op = "send-verification-code" /\ last'.issue # 0)
          => /\ Stored(verificationCodes'[last'.email]) =
                    [code |-> last'.code, expiresAt |-> now + CodeTTL]
             /\ \A e \in DOMAIN verificationCodes' :
                    e # last'.email =>
                        (MapHas(verificationCodes, e)
                         /\ verificationCodes'[e] = verificationCodes[e])
    /\ (last'.op = "send-password-reset" /\ last'.issue # 0)
          => /\ Stored(passwordResetCodes'[last'.email]) =
                    [code |-> last'.code, expiresAt |-> now + CodeTTL]
             /\ \A e \in DOMAIN passwordResetCodes' :
                    e # last'.email =>
                        (MapHas(passwordResetCodes, e)
                         /\ passwordResetCodes'[e] = passwordResetCodes[e])
    /\ (/\ last'.op = "verify-code"
        /\ MapHas(verificationCodes, last'.email)
        /\ verificationCodes[last'.email].code # last'.code)
          => (last'.status = 400 /\ ~last'.suspended)
    /\ (/\ last'.op = "reset-password"
        /\ MapHas(passwordResetCodes, last'.email)
        /\ passwordResetCodes[last'.email].code # last'.code)
          => (last'.status = 400 /\ ~last'.suspended)

\* C8: a registry holds one entry per address; issuing a code replaces the entry
\* of the address by the new code and leaves the other addresses alone; a request
\* is accepted only with the code of the entry, so the replaced code, when it
\* differs, is answered 400 although it has not expired.
C8_OneLiveCode == [][C8_ReissueStep]_vars

\* The code that a second send-verification-code replaced is presented before
\* its own expiry and answered 400.
C8_Witness ==
    /\ last.op = "verify-code"
    /\ last.status = 400
    /\ MapHas(verificationCodes, last.email)
    /\ verificationCodes[last.email].replaced.code = last.code
    /\ verificationCodes[last.email].code # last.code
    /\ now <= verificationCodes[last.email].replaced.expiresAt

\* C8 as stated: once an entry has been replaced, the code it held is answered
\* 400 while it has not expired.
C8_ReplacedCodeFails ==
    /\ (/\ last.op = "verify-code"
        /\ MapHas(verificationCodes, last.email)
        /\ verificationCodes[last.email].replaced # NoEntry
        /\ verificationCodes[last.email].replaced.code = last.code
        /\ now <= verificationCodes[last.email].replaced.expiresAt)
          => (last.status = 400 /\ ~last.suspended)
    /\ (/\ last.op = "reset-password"
        /\ MapHas(passwordResetCodes, last.email)
        /\ passwordResetCodes[last.email].replaced # NoEntry
        /\ passwordResetCodes[last.email].replaced.code = last.code
        /\ now <= passwordResetCodes[last.email].replaced.expiresAt)
          => (last.status = 400 /\ ~last.suspended)

\* The address of a row as register normalises it.
Normalized(email) == toLowerCase(trim(email))

C9_UniqueEmails ==
    \A u, v \in usuarios : Normalized(u.email) = Normalized(v.email) => u = v

C9_DuplicateStep ==
    (last'.op = "register" /\ RowsOf(Normalized(last'.email)) # {})
        => (last'.status \in {400, 500} /\ UNCHANGED usuarios)

\* C9: no two rows hold the same address, compared trimmed and in lower case, and
\* a register for the address of a row is answered 400 (500 when the storage
\* fails) and leaves the table as it is.
C9_EmailUnique == []C9_UniqueEmails /\ [][C9_DuplicateStep]_vars

\* A register with valid fields for " A@X.com" is answered 400 because the row
\* of a@x.com exists.
C9_Witness ==
    /\ last.op = "register"
    /\ last.status = 400
    /\ last.email = EmailPadded
    /\ last.name # EmptyString
    /\ parseInt(last.age) \in MinAge..MaxAge
    /\ RowsOf(EmailLower) # {}

\* C10: login answers an address in any case as it answers the address in lower
\* case.
C10_LoginIgnoresCase ==
    (last.op = "login" /\ last.storage) =>
        (last.status = 200 <=>
            SelectLogin(usuarios, toLowerCase(last.email), last.password) # {})

\* C11: the senha column never holds the password a request supplied: after a
\* successful register the row does not hold the password of the body, after a
\* successful reset-password it does not hold the new password, and the admin
\* row does not hold the bootstrap password.
C11_NoPlaintextSecret ==
    /\ (last.op = "register" /\ last.status = 200) =>
            \A u \in RowsOf(Normalized(last.email)) : u.senha # last.password
    /\ (last.op = "reset-password-end" /\ last.status = 200) =>
            \A u \in RowsOf(last.email) : u.senha # last.password
    /\ \A u \in RowsOf(AdminEmail) : u.senha # AdminPassword

\* What the steps of reset-password do to the usuarios table.
C12_ResetStep ==
    /\ (last'.op = "reset-password-end" /\ last'.status = 200) =>
          /\ \A u \in usuarios : u.email # last'.email => u \in usuarios'
          /\ \A u \in RowsOf(last'.email) :
                [u EXCEPT !.senha = last'.password] \in usuarios'
          /\ Cardinality(usuarios') = Cardinality(usuarios)
          /\ \A pw \in LoginPasswords :
                SelectLogin(usuarios', last'.email, pw) # {}
                    <=> (pw = last'.password /\ \E u \in RowsOf(last'.email) : u.verificado)
    /\ (last'.op = "reset-password-end" /\ last'.status # 200) => UNCHANGED usuarios
    /\ (/\ last'.op = "reset-password"
        /\ \/ ~MapHas(passwordResetCodes, last'.email)
           \/ passwordResetCodes[last'.email].code # last'.code
           \/ now > passwordResetCodes[last'.email].expiresAt)
          => (last'.status = 400 /\ ~last'.suspended /\ UNCHANGED <<usuarios, pending>>)
    /\ last'.op = "reset-password" => UNCHANGED usuarios

\* C12: a reset-password accepted with the live reset code replaces the senha of
\* the one row of the address and nothing else (flag, role and the other rows
\* stay), after which login for the address answers 200 exactly with the new
\* password and only if the row is verified; a reset-password with an absent,
\* wrong or expired code is answered 400 and leaves the table as it is.
C12_ResetReplacesOnlySecret == [][C12_ResetStep]_vars

\* The password of a verified user has been reset.
C12_Witness ==
    /\ last.op = "reset-password-end"
    /\ last.status = 200
    /\ \E u \in RowsOf(last.email) : u.verificado /\ u.senha = last.password

\* The routes that issue a code.
SendOps == {"send-verification-code", "send-password-reset"}

C13_Keys ==
    \A e \in (DOMAIN verificationCodes) \cup (DOMAIN passwordResetCodes) : RowsOf(e) # {}

C13_UnknownStep ==
    (last'.op \in SendOps /\ RowsOf(last'.email) = {}) =>
        /\ last'.storage => last'.status = 404
        /\ last'.issue = 0
        /\ UNCHANGED <<verificationCodes, passwordResetCodes, issues>>

\* C13: send-verification-code and send-password-reset for an address that has
\* no row are answered 404 and store no code, and every key of either registry
\* is the address of a row of usuarios.
C13_UnknownEmail == []C13_Keys /\ [][C13_UnknownStep]_vars

\* A code is asked for "A@X.com" while the only user is a@x.com.
C13_Witness ==
    /\ last.op \in SendOps
    /\ last.status = 404
    /\ last.email = EmailUpper
    /\ RowsOf(EmailLower) # {}
    /\ RowsOf(EmailUpper) = {}

\* C14: without a transport, a send-verification-code or send-password-reset that
\* issued a code is answered 200 with a body that holds the code.
C14_SimulatedDelivery ==
    (last.op \in SendOps /\ last.issue # 0 /\ transporter = "null") =>
        /\ last.status = 200
        /\ \E f \in last.reply : f[2] = last.code

\* C15: with a transport, the body a route that issues a code answers with is
\* decided by the status alone and no value in it is the code, so two runs that
\* differ only in the code drawn are answered alike.
C15_NoCodeInReply ==
    (last.op \in SendOps /\ last.issue # 0 /\ transporter # "null") =>
        /\ last.status \in {200, 500}
        /\ last.reply = IF last.status = 200 THEN SuccessReply ELSE MailErrorReply
        /\ \A f \in last.reply : f[2] # last.code

\* With a transport, a code was issued and the mail was delivered.
C15_Witness ==
    /\ last.op \in SendOps
    /\ last.status = 200
    /\ last.code \in CodeInputs
    /\ transporter # "null"

\* What a step that answers 500 for a failed delivery does to the registries.
C16_FailedSendStep ==
    (last'.op \in SendOps /\ last'.status = 500) =>
        UNCHANGED <<verificationCodes, passwordResetCodes>>

\* C16: a send-verification-code or send-password-reset that answers 500 because
\* the delivery failed leaves both registries as they were.
C16_NoPartialCommit == [][C16_FailedSendStep]_vars

\* What the steps of delete-anuncio do to the records and the files.
C17_DeleteStep ==
    /\ (last'.op = "delete-anuncio-end" /\ last'.status = 200) =>
          /\ \A a \in anuncios' : a.id # last'.id
          /\ anuncios' \subseteq anuncios
          /\ \A a \in anuncios : a.id # last'.id => a \in anuncios'
          /\ last'.file # Null => last'.file \notin uploads
          /\ UNCHANGED <<noticias, uploads>>
    /\ last'.op = "delete-anuncio-unlink" =>
          /\ UNCHANGED <<anuncios, noticias>>
          /\ uploads' \subseteq uploads
          /\ (uploads \ uploads') \subseteq {last'.file}
          /\ last'.suspended => last'.file \notin uploads'
    /\ last'.op = "delete-anuncio" => UNCHANGED <<anuncios, noticias, uploads>>
    /\ (/\ last'.op = "delete-anuncio"
        /\ last'.senha = AdminPassword
        /\ last'.storage
        /\ \A a \in anuncios : a.id # last'.id)
          => (last'.status = 404 /\ ~last'.suspended /\ UNCHANGED deleting)

\* C17: a delete-anuncio answered 200 has removed the row of the id and, before
\* the row, the file its imagem names; its steps leave every other row and every
\* other file as they are; a delete of an id without a row is answered 404 and
\* changes nothing.
C17_DeleteRemovesRowAndFile == [][C17_DeleteStep]_vars

\* A lead with an image has been deleted while another lead keeps its image.
C17_Witness ==
    /\ last.op = "delete-anuncio-end"
    /\ last.status = 200
    /\ last.file # Null
    /\ last.file \notin uploads
    /\ \E a \in anuncios : a.id # last.id /\ a.imagem # Null /\ a.imagem \in uploads

\* C18: a delete-anuncio that has found its row goes on to its DELETE whether the
\* file is removed, is absent, or its removal throws; it is never answered 500
\* for the file.
C18_UnlinkNeverBlocks ==
    last.op = "delete-anuncio-unlink" => (last.suspended /\ last.status # 500)

\* C19: every row of noticias and of anuncios whose imagem is not null names a
\* file of the uploads directory.
C19_ImagesExist ==
    /\ \A n \in noticias : n.imagem # Null => n.imagem \in uploads
    /\ \A a \in anuncios : a.imagem # Null => a.imagem \in uploads

\* C20: when no request is being handled, every file of the uploads directory is
\* the imagem of a row of noticias or of anuncios.
C20_NoOrphanFiles ==
    (last = NoRequest /\ deleting = EmptyBag) =>
        \A f \in uploads :
            \/ \E n \in noticias : n.imagem = f
            \/ \E a \in anuncios : a.imagem = f

\* The routes that create a record.
CreateOps == {"add-ad", "add-news", "add-anuncio"}

\* The rows a create answer with this id names.
Created(op, id) ==
    IF op = "add-news" THEN {n \in noticias : n.id = id} ELSE {a \in anuncios : a.id = id}

\* C21: a create request with a missing or empty text field is answered 4xx and
\* stores no row, on add-ad, add-news and add-anuncio alike; a create answered
\* 200 has stored one row, named by the id of the answer, whose imagem is set
\* exactly when multer stored a file.
C21_CreateValidates ==
    /\ (last.op \in CreateOps /\ AnyFalsy(last.body)) =>
            (last.status \in 400..499 /\ last.id = 0)
    /\ (last.op \in CreateOps /\ last.status = 200) =>
            /\ Cardinality(Created(last.op, last.id)) = 1
            /\ \A r \in Created(last.op, last.id) :
                    /\ r.imagem = last.file
                    /\ r.imagem # Null <=> Multer(last.upload) = "stored"

\* C23: a request whose storage call failed has been answered with a 5xx status
\* when its handler is done.
C23_FailuresAnswered ==
    (last.op # "none" /\ ~last.storage) => last.status \in 500..599

\* The values an answer body holds under a key.
Field(reply, key) == {f[2] : f \in {g \in reply : g[1] = key}}

\* C24: once a@x.com is registered and verified, its login with the stored
\* password succeeds, and the answer holds the standard role and a token that
\* names the account: it is not the token the administrator's login is given.
C24_RoundTrip ==
    (/\ last.op = "login"
     /\ last.storage
     /\ last.email = EmailLower
     /\ \E u \in RowsOf(EmailLower) : u.verificado /\ u.senha = last.password) =>
        /\ last.status = 200
        /\ Field(last.reply, "isAdmin") = {JsonBool(FALSE)}
        /\ Field(last.reply, "token") \cap Field(LoginReply(AdminRow), "token") = {}

Numeric(s) == s # <<>> /\ \A i \in DOMAIN s : IsDigit(s[i])

\* A register whose age is not a number or lies outside MinAge..MaxAge answers
\* 400 and leaves the table alone.
C26_AgeStep ==
    (last'.op = "register" /\ (~Numeric(last'.age) \/ parseInt(last'.age) \notin MinAge..MaxAge)) =>
        (last'.status = 400 /\ UNCHANGED usuarios)

\* C26: register refuses with 400, and without a new row, an age that is not a
\* number or lies outside 13..120; every stored age lies in 13..120.
C26_AgeValidated ==
    /\ [](\A u \in usuarios : u.idade \in MinAge..MaxAge)
    /\ [][C26_AgeStep]_vars

\* No step changes the role of a row, a row that is new is no administrator,
\* and initDB on a database that holds the administrator inserts nothing.
C27_RoleStep ==
    /\ \A u \in usuarios : \E v \in usuarios' : v.email = u.email /\ v.is_admin = u.is_admin
    /\ \A v \in usuarios' : (\A u \in usuarios : u.email # v.email) => ~v.is_admin
    /\ last'.op = "initDB" => (UNCHANGED usuarios /\ last'.id = 0)

C28_NewerStep ==
    /\ (/\ last'.op = "verify-code-end"
        /\ MapHas(verificationCodes, last'.email)
        /\ verificationCodes[last'.email].issue # last'.issue) =>
            UNCHANGED verificationCodes
    /\ (/\ last'.op = "reset-password-end"
        /\ MapHas(passwordResetCodes, last'.email)
        /\ passwordResetCodes[last'.email].issue # last'.issue) =>
            UNCHANGED passwordResetCodes

\* C28: a verify-code (reset-password) suspended at its storage write never
\* deletes the registry entry of a newer code issued for the same address in
\* the meantime.
C28_NewerCodeSurvives == [][C28_NewerStep]_vars

\* C29: every lead has status 'pendente', and the count of active leads that
\* admin-dashboard answers with is 0.
C29_LeadsStayPendente ==
    /\ \A a \in anuncios : a.status = "pendente"
    /\ (last.op = "admin-dashboard" /\ last.status = 200) =>
            Field(last.reply, "totalAnuncios") = {<<"0">>}

\* admin-dashboard answered while the table held a lead.
C29_Witness ==
    /\ last.op = "admin-dashboard"
    /\ last.status = 200
    /\ anuncios # {}
    /\ Field(last.reply, "totalAnuncios") = {<<"0">>}
====
